---- MODULE Spec2Model ----
(***************************************************************************)
(* The OAuth2 handlers of api/v1 (src/unnamed/part_000): Authorize and the *)
(* user-authorization callback with their "ReturnUri" session bookkeeping, *)
(* the client-credential resolver, token issuance / refresh, client        *)
(* registration and userinfo.  The go-oauth2 server, the session store,    *)
(* Redis and the SQL stores are modelled by the calls the handlers make on *)
(* them and by the results those calls can give.                           *)
(***************************************************************************)
EXTENDS Integers, Sequences, FiniteSets, TLC

VARIABLES
    session,      \* the go-session store of the one browser session
    rdb,          \* Redis: username -> current login token (NoKey when absent)
    clientStore,  \* the pg client store: set of models.Client
    tokenStore,   \* the pg token store: set of token records
    nextTok,      \* number of token pairs the library has generated so far
    out           \* what the last handler call did (its observable outcome)

vars == <<session, rdb, clientStore, tokenStore, nextTok, out>>

----------------------------------------------------------------------------
(* Bounds *)

\* longest list of "token" values a stored form may carry
MaxTokenValues == 2
\* number of token pairs the library may generate
MaxIssued == 2

----------------------------------------------------------------------------
(* net/url.Values and net/http.Request.Form *)

\* url.Values.Get: the first value of the key, "" when there is none
Get(vals, k) == IF k \in DOMAIN vals /\ Len(vals[k]) > 0 THEN vals[k][1] ELSE ""

\* url.Values.Add: appends the value to the key's list
Add(vals, k, v) == [vals EXCEPT ![k] = Append(@, v)]

\* r.Form: nil, or a url.Values
NilForm(shape) == [isNil |-> TRUE, vals |-> shape]
SomeForm(vals) == [isNil |-> FALSE, vals |-> vals]

\* http.Request.ParseForm / ParseMultipartForm / FormValue: r.Form is rebuilt
\* from the already-parsed PostForm and the URL query only when it is nil
ParseForm(r) == IF r.Form.isNil THEN [r EXCEPT !.Form = SomeForm(r.params)] ELSE r

----------------------------------------------------------------------------
(* Login tokens, util.GetUsername and the Redis login-token record *)

Usernames == {"u1", "u2"}
NoKey == "redis.Nil"

\* the login tokens a request may present: t1, t2 were issued to u1, t3 to u2,
\* tx does not verify, te verifies but names nobody
LoginTokens == {"t1", "t2", "t3", "tx", "te"}

GetUsername(token) ==
    CASE token = "t1" -> [username |-> "u1", err |-> "nil"]
      [] token = "t2" -> [username |-> "u1", err |-> "nil"]
      [] token = "t3" -> [username |-> "u2", err |-> "nil"]
      [] token = "te" -> [username |-> "", err |-> "nil"]
      [] OTHER        -> [username |-> "", err |-> "token invalid"]

\* model.Rdb.Get(ctx, model.LoginTokenKey(username)).Result()
RdbGet(db, username, rdbDown) ==
    IF rdbDown THEN [val |-> "", err |-> "redis down"]
    ELSE IF db[username] = NoKey THEN [val |-> "", err |-> NoKey]
    ELSE [val |-> db[username], err |-> "nil"]

----------------------------------------------------------------------------
(* userAuthorizeHandler *)

AUTH_ERROR == "AUTH_ERROR"

\* the block every failed check of userAuthorizeHandler runs, followed by the
\* bare return of the named results (userID, err)
AuthFailed(r, branch, err) ==
    [branch |-> branch, userID |-> "", err |-> err,
     setReturnUri |-> TRUE, returnUri |-> ParseForm(r).Form.vals, saved |-> TRUE,
     body |-> <<AUTH_ERROR>>, form |-> r.Form.vals]

\* as userAuthorizeHandler, but the token-mismatch check returns without
\* storing the form in the session
userAuthorizeHandlerNoStore(r0, startErr, db, rdbDown) ==
    LET r == ParseForm(r0)
        token == Get(r.Form.vals, "token")
        un == GetUsername(token)
        rt == RdbGet(db, un.username, rdbDown)
        quiet == [branch |-> "mismatch", userID |-> "", err |-> "nil",
                  setReturnUri |-> FALSE, returnUri |-> r.Form.vals, saved |-> FALSE,
                  body |-> <<AUTH_ERROR>>, form |-> r.Form.vals]
    IN  IF startErr
        THEN [branch |-> "session", userID |-> "", err |-> "session error",
              setReturnUri |-> FALSE, returnUri |-> r.Form.vals, saved |-> FALSE,
              body |-> <<>>, form |-> r.Form.vals]
        ELSE IF token = "" THEN AuthFailed(r, "missing", "nil")
        ELSE IF un.err # "nil" \/ un.username = "" THEN AuthFailed(r, "resolve", un.err)
        ELSE IF rt.err # "nil" THEN AuthFailed(r, "lookup", rt.err)
        ELSE IF rt.val # token THEN quiet
        ELSE [branch |-> "ok", userID |-> un.username, err |-> "nil",
              setReturnUri |-> FALSE, returnUri |-> r.Form.vals, saved |-> FALSE,
              body |-> <<>>, form |-> r.Form.vals]

\* as userAuthorizeHandler, but without the comparison of the stored login
\* token with the presented one
userAuthorizeHandlerNoCompare(r0, startErr, db, rdbDown) ==
    LET r == ParseForm(r0)
        token == Get(r.Form.vals, "token")
        un == GetUsername(token)
        rt == RdbGet(db, un.username, rdbDown)
    IN  IF startErr
        THEN [branch |-> "session", userID |-> "", err |-> "session error",
              setReturnUri |-> FALSE, returnUri |-> r.Form.vals, saved |-> FALSE,
              body |-> <<>>, form |-> r.Form.vals]
        ELSE IF token = "" THEN AuthFailed(r, "missing", "nil")
        ELSE IF un.err # "nil" \/ un.username = "" THEN AuthFailed(r, "resolve", un.err)
        ELSE IF rt.err # "nil" THEN AuthFailed(r, "lookup", rt.err)
        ELSE [branch |-> "ok", userID |-> un.username, err |-> "nil",
              setReturnUri |-> FALSE, returnUri |-> r.Form.vals, saved |-> FALSE,
              body |-> <<>>, form |-> r.Form.vals]

userAuthorizeHandler(r0, startErr, db, rdbDown) ==
    LET r == ParseForm(r0)
        token == Get(r.Form.vals, "token")
        un == GetUsername(token)
        rt == RdbGet(db, un.username, rdbDown)
    IN  IF startErr
        THEN [branch |-> "session", userID |-> "", err |-> "session error",
              setReturnUri |-> FALSE, returnUri |-> r.Form.vals, saved |-> FALSE,
              body |-> <<>>, form |-> r.Form.vals]
        ELSE IF token = "" THEN AuthFailed(r, "missing", "nil")
        ELSE IF un.err # "nil" \/ un.username = "" THEN AuthFailed(r, "resolve", un.err)
        ELSE IF rt.err # "nil" THEN AuthFailed(r, "lookup", rt.err)
        ELSE IF rt.val # token THEN AuthFailed(r, "mismatch", "nil")
        ELSE [branch |-> "ok", userID |-> un.username, err |-> "nil",
              setReturnUri |-> FALSE, returnUri |-> r.Form.vals, saved |-> FALSE,
              body |-> <<>>, form |-> r.Form.vals]

----------------------------------------------------------------------------
(* srv.HandleAuthorizeRequest of the go-oauth2 server, as Authorize uses it *)

\* the authorization parameters of a form: everything but the login token
AuthParams(vals) == vals["client_id"]

NoCallback ==
    [branch |-> "none", userID |-> "", err |-> "nil",
     setReturnUri |-> FALSE, returnUri |-> [token |-> <<>>, client_id |-> <<>>],
     saved |-> FALSE, body |-> <<>>, form |-> [token |-> <<>>, client_id |-> <<>>]]

\* ValidationAuthorizeRequest reads the form with r.FormValue (which re-parses
\* a nil r.Form) and fails before the callback when client_id is missing; then
\* the callback runs; an error from it is turned into an error redirect, an
\* empty user ID ends the request, a user ID gets an authorization code.
HandleAuthorizeRequest(r0, startErr, db, rdbDown) ==
    LET r == ParseForm(r0)
        cb == userAuthorizeHandler(r, startErr, db, rdbDown)
    IN  IF Get(r.Form.vals, "client_id") = ""
        THEN [called |-> FALSE, cb |-> NoCallback, err |-> "invalid_request",
              form |-> r.Form.vals, body |-> <<>>]
        ELSE IF cb.err # "nil"
        THEN [called |-> TRUE, cb |-> cb, err |-> "nil",
              form |-> r.Form.vals, body |-> cb.body \o <<"redirect error">>]
        ELSE IF cb.userID = ""
        THEN [called |-> TRUE, cb |-> cb, err |-> "nil",
              form |-> r.Form.vals, body |-> cb.body]
        ELSE [called |-> TRUE, cb |-> cb, err |-> "nil", form |-> r.Form.vals,
              body |-> cb.body \o <<"redirect code">>]

----------------------------------------------------------------------------
(* Authorize *)

NoSession == [has |-> FALSE, ReturnUri |-> [token |-> <<>>, client_id |-> <<>>]]

\* the url.Values form Authorize hands to the library: the stored "ReturnUri"
\* values with the request's token added, or nil when nothing is stored
AuthorizeForm(sess, r) ==
    IF sess.has
    THEN SomeForm(Add(sess.ReturnUri, "token", Get(r.Form.vals, "token")))
    ELSE NilForm(r.params)

\* the session after the callback ran on a session Authorize had cleared
SessionAfter(lib) ==
    IF lib.called /\ lib.cb.setReturnUri
    THEN [has |-> TRUE, ReturnUri |-> lib.cb.returnUri]
    ELSE NoSession

Authorize(params, startErr, startErr2, rdbDown) ==
    LET r == ParseForm([params |-> params, Form |-> NilForm(params)])
        form == AuthorizeForm(session, r)
        lib == HandleAuthorizeRequest([r EXCEPT !.Form = form], startErr2,
                                      rdb, rdbDown)
    IN  /\ Len(form.vals["token"]) <= MaxTokenValues
        /\ IF startErr
           THEN /\ session' = session
                /\ out' = [op |-> "Authorize", params |-> params, started |-> FALSE,
                           hadReturnUri |-> session.has, stored |-> session.ReturnUri,
                           rdbDown |-> rdbDown,
                           lib |-> [called |-> FALSE, cb |-> NoCallback, err |-> "nil",
                                    form |-> params, body |-> <<>>],
                           body |-> <<"InternalErr">>]
           ELSE /\ session' = SessionAfter(lib)
                /\ out' = [op |-> "Authorize", params |-> params, started |-> TRUE,
                           hadReturnUri |-> session.has, stored |-> session.ReturnUri,
                           rdbDown |-> rdbDown, lib |-> lib,
                           body |-> lib.body \o
                               (IF lib.err # "nil" THEN <<"InternalErr">> ELSE <<>>)]
        /\ UNCHANGED <<rdb, clientStore, tokenStore, nextTok>>

\* the login service records the token it issued as the user's current one
Login(u, t) ==
    /\ GetUsername(t) = [username |-> u, err |-> "nil"]
    /\ rdb[u] # t
    /\ rdb' = [rdb EXCEPT ![u] = t]
    /\ out' = [op |-> "Login"]
    /\ UNCHANGED <<session, clientStore, tokenStore, nextTok>>

\* the login-token record expires or is removed
Logout(u) ==
    /\ rdb[u] # NoKey
    /\ rdb' = [rdb EXCEPT ![u] = NoKey]
    /\ out' = [op |-> "Logout"]
    /\ UNCHANGED <<session, clientStore, tokenStore, nextTok>>

\* the parameters an authorize request may carry
TokenParams == {<<>>} \cup {<<t>> : t \in LoginTokens \cup {""}}
ClientParams == {<<>>, <<"c1">>, <<"c2">>}
AuthorizeParams == [token : TokenParams, client_id : ClientParams]

DoAuthorize ==
    \E params \in AuthorizeParams, startErr, startErr2, rdbDown \in BOOLEAN :
        Authorize(params, startErr, startErr2, rdbDown)

DoLogin == \E u \in Usernames, t \in LoginTokens : Login(u, t)

DoLogout == \E u \in Usernames : Logout(u)

InitAuthorize ==
    /\ session = NoSession
    /\ rdb = [u \in Usernames |-> NoKey]
    /\ clientStore = {}
    /\ tokenStore = {}
    /\ nextTok = 0
    /\ out = [op |-> "none"]

NextAuthorize == DoAuthorize \/ DoLogin \/ DoLogout

SpecAuthorize == InitAuthorize /\ [][NextAuthorize]_vars

----------------------------------------------------------------------------
(* The client store, the token store and the manager's lookups *)

\* rows the stores hold that no handler of this file wrote: a client whose
\* secret is empty, a token of no client, a token of a removed client and
\* of a removed user, and a token of the client with the empty secret
SeedClients ==
    {[ID |-> "c0", Secret |-> "", Domain |-> "d0"],
     [ID |-> "c1", Secret |-> "s1", Domain |-> "d1"],
     [ID |-> "c2", Secret |-> "s2", Domain |-> "d2"]}

Digits == <<"1", "2", "3", "4", "5", "6", "7", "8", "9">>
AccessOf(n) == <<"a", Digits[n]>>
RefreshOf(n) == <<"r1", "r2", "r3", "r4", "r5", "r6", "r7", "r8", "r9">>[n]

SeedTokens ==
    {[Access |-> AccessOf(7), Refresh |-> "r7", ClientID |-> "", UserID |-> "u1"],
     [Access |-> AccessOf(8), Refresh |-> "r8", ClientID |-> "c9", UserID |-> "u9"],
     [Access |-> AccessOf(9), Refresh |-> "r9", ClientID |-> "c0", UserID |-> "u2"]}

NoToken == [Access |-> <<>>, Refresh |-> "", ClientID |-> "", UserID |-> ""]
NoClient == [ID |-> "", Secret |-> "", Domain |-> ""]

\* Manager.LoadRefreshToken: an error, or the record holding that refresh token
LoadRefreshToken(store, refresh) ==
    IF refresh # "" /\ \E t \in store : t.Refresh = refresh
    THEN [ti |-> CHOOSE t \in store : t.Refresh = refresh, isNil |-> FALSE, err |-> "nil"]
    ELSE [ti |-> NoToken, isNil |-> TRUE, err |-> "invalid refresh token"]

\* Manager.LoadAccessToken: an error, or the record holding that access token
LoadAccessToken(store, access) ==
    IF access # <<>> /\ \E t \in store : t.Access = access
    THEN [ti |-> CHOOSE t \in store : t.Access = access, isNil |-> FALSE, err |-> "nil"]
    ELSE [ti |-> NoToken, isNil |-> TRUE, err |-> "invalid access token"]

\* Manager.GetClient: an error, or the client of that id
GetClient(clients, id) ==
    IF \E c \in clients : c.ID = id
    THEN [cli |-> CHOOSE c \in clients : c.ID = id, err |-> "nil"]
    ELSE [cli |-> NoClient, err |-> "invalid client"]

----------------------------------------------------------------------------
(* clientInfoHandler *)

ClientInfo(id, secret, err, panicked, load, get) ==
    [clientID |-> id, clientSecret |-> secret, err |-> err, panicked |-> panicked,
     load |-> load, get |-> get]

NotLoaded == [ti |-> NoToken, isNil |-> TRUE, err |-> "not called"]
NotFetched == [cli |-> NoClient, err |-> "not called"]

\* as clientInfoHandler, but without the check of an empty stored secret
clientInfoHandlerNoSecretCheck(form, tokens, clients) ==
    LET load == LoadRefreshToken(tokens, Get(form, "refresh_token"))
        id == load.ti.ClientID
        get == GetClient(clients, id)
    IN  IF Get(form, "grant_type") = "refresh_token"
        THEN IF load.err # "nil"
             THEN ClientInfo("", "", "RefreshTokenErr", FALSE, load, NotFetched)
             ELSE IF id = ""
             THEN ClientInfo("", "", "ClientErr", FALSE, load, NotFetched)
             ELSE IF get.err # "nil"
             THEN ClientInfo("", "", "ClientErr", FALSE, load, get)
             ELSE ClientInfo(id, get.cli.Secret, "nil", FALSE, load, get)
        ELSE IF Get(form, "client_id") = ""
        THEN ClientInfo("", "", "ClientErr", FALSE, NotLoaded, NotFetched)
        ELSE IF Get(form, "client_secret") = ""
        THEN ClientInfo("", "", "ClientErr", FALSE, NotLoaded, NotFetched)
        ELSE ClientInfo(Get(form, "client_id"), Get(form, "client_secret"), "nil",
                        FALSE, NotLoaded, NotFetched)

\* as clientInfoHandler, but a refresh grant takes the client id of the
\* request body when the body carries one
clientInfoHandlerBodyFirst(form, tokens, clients) ==
    LET load == LoadRefreshToken(tokens, Get(form, "refresh_token"))
        id == IF Get(form, "client_id") # "" THEN Get(form, "client_id")
              ELSE load.ti.ClientID
        get == GetClient(clients, id)
    IN  IF Get(form, "grant_type") = "refresh_token"
        THEN IF load.err # "nil"
             THEN ClientInfo("", "", "RefreshTokenErr", FALSE, load, NotFetched)
             ELSE IF id = ""
             THEN ClientInfo("", "", "ClientErr", FALSE, load, NotFetched)
             ELSE IF get.err # "nil"
             THEN ClientInfo("", "", "ClientErr", FALSE, load, get)
             ELSE IF get.cli.Secret = ""
             THEN ClientInfo("", "", "ClientErr", FALSE, load, get)
             ELSE ClientInfo(id, get.cli.Secret, "nil", FALSE, load, get)
        ELSE IF Get(form, "client_id") = ""
        THEN ClientInfo("", "", "ClientErr", FALSE, NotLoaded, NotFetched)
        ELSE IF Get(form, "client_secret") = ""
        THEN ClientInfo("", "", "ClientErr", FALSE, NotLoaded, NotFetched)
        ELSE ClientInfo(Get(form, "client_id"), Get(form, "client_secret"), "nil",
                        FALSE, NotLoaded, NotFetched)

\* ti and cli are dereferenced only after their err was found nil; a nil ti
\* with a nil err would panic at ti.GetClientID()
clientInfoHandler(form, tokens, clients) ==
    LET load == LoadRefreshToken(tokens, Get(form, "refresh_token"))
        id == load.ti.ClientID
        get == GetClient(clients, id)
    IN  IF Get(form, "grant_type") = "refresh_token"
        THEN IF load.err # "nil"
             THEN ClientInfo("", "", "RefreshTokenErr", FALSE, load, NotFetched)
             ELSE IF load.isNil
             THEN ClientInfo("", "", "nil", TRUE, load, NotFetched)
             ELSE IF id = ""
             THEN ClientInfo("", "", "ClientErr", FALSE, load, NotFetched)
             ELSE IF get.err # "nil"
             THEN ClientInfo("", "", "ClientErr", FALSE, load, get)
             ELSE IF get.cli.Secret = ""
             THEN ClientInfo("", "", "ClientErr", FALSE, load, get)
             ELSE ClientInfo(id, get.cli.Secret, "nil", FALSE, load, get)
        ELSE IF Get(form, "client_id") = ""
        THEN ClientInfo("", "", "ClientErr", FALSE, NotLoaded, NotFetched)
        ELSE IF Get(form, "client_secret") = ""
        THEN ClientInfo("", "", "ClientErr", FALSE, NotLoaded, NotFetched)
        ELSE ClientInfo(Get(form, "client_id"), Get(form, "client_secret"), "nil",
                        FALSE, NotLoaded, NotFetched)

----------------------------------------------------------------------------
(* srv.HandleTokenRequest of the go-oauth2 server, AccessToken, RefreshToken *)

NotAsked == ClientInfo("", "", "not called", FALSE, NotLoaded, NotFetched)

TokenResult(cih, issued, body, writeErr, tokens, n) ==
    [cih |-> cih, issued |-> issued, body |-> <<body>>,
     err |-> IF writeErr THEN "write error" ELSE "nil", tokens |-> tokens, n |-> n]

\* the token pair the library generates next
NewToken(n, clientID, userID) ==
    [Access |-> AccessOf(n + 1), Refresh |-> RefreshOf(n + 1),
     ClientID |-> clientID, UserID |-> userID]

\* The library validates the grant type, asks clientInfoHandler for the
\* client's credentials, checks them against the client store and issues a
\* token pair (a refresh replaces the pair it was asked with).  It writes the
\* token or the error to the response itself; the error it returns is only
\* that of writing the response.
HandleTokenRequest(form, tokens, clients, n, codeUser, writeErr) ==
    LET gt == Get(form, "grant_type")
        cih == clientInfoHandler(form, tokens, clients)
        cli == GetClient(clients, cih.clientID)
    IN  IF gt = ""
        THEN TokenResult(NotAsked, FALSE, "unsupported_grant_type", writeErr, tokens, n)
        ELSE IF cih.panicked
        THEN TokenResult(cih, FALSE, "panic", FALSE, tokens, n)
        ELSE IF cih.err # "nil"
        THEN TokenResult(cih, FALSE, "server_error", writeErr, tokens, n)
        ELSE IF cli.err # "nil" \/ cli.cli.Secret # cih.clientSecret
        THEN TokenResult(cih, FALSE, "invalid_client", writeErr, tokens, n)
        ELSE IF gt = "refresh_token"
        THEN TokenResult(cih, TRUE, "token", writeErr,
                 (tokens \ {cih.load.ti})
                     \cup {NewToken(n, cih.clientID, cih.load.ti.UserID)}, n + 1)
        ELSE IF codeUser = ""
        THEN TokenResult(cih, FALSE, "invalid_grant", writeErr, tokens, n)
        ELSE TokenResult(cih, TRUE, "token", writeErr,
                 tokens \cup {NewToken(n, cih.clientID, codeUser)}, n + 1)

INTERNAL_ERR == "InternalErr"

\* what a token handler appends to the response after the library returned
AccessTokenBody(err) == IF err # "nil" THEN <<INTERNAL_ERR>> ELSE <<>>

\* RefreshToken with the condition of AccessToken
RefreshTokenBodyAsAccess(err) == IF err # "nil" THEN <<INTERNAL_ERR>> ELSE <<>>

RefreshTokenBody(err) == IF err = "nil" THEN <<INTERNAL_ERR>> ELSE <<>>

TokenOut(op, form, lib, own) ==
    [op |-> op, form |-> form, cih |-> lib.cih, issued |-> lib.issued,
     libErr |-> lib.err, libBody |-> lib.body, own |-> own]

AccessToken(form, codeUser, writeErr) ==
    LET lib == HandleTokenRequest(form, tokenStore, clientStore, nextTok,
                                  codeUser, writeErr)
    IN  /\ lib.n <= MaxIssued
        /\ tokenStore' = lib.tokens
        /\ nextTok' = lib.n
        /\ out' = TokenOut("AccessToken", form, lib, AccessTokenBody(lib.err))
        /\ UNCHANGED <<session, rdb, clientStore>>

RefreshToken(form, codeUser, writeErr) ==
    LET lib == HandleTokenRequest(form, tokenStore, clientStore, nextTok,
                                  codeUser, writeErr)
    IN  /\ lib.n <= MaxIssued
        /\ tokenStore' = lib.tokens
        /\ nextTok' = lib.n
        /\ out' = TokenOut("RefreshToken", form, lib, RefreshTokenBody(lib.err))
        /\ UNCHANGED <<session, rdb, clientStore>>

\* the token requests: a refresh with any refresh token and any credentials
\* in the body, or a code exchange with any credentials
RefreshCandidates == {"", "r7", "r8", "r9"} \cup {RefreshOf(n) : n \in 1..MaxIssued}
TokenForms ==
    [grant_type : {<<"refresh_token">>}, refresh_token : {<<r>> : r \in RefreshCandidates},
     client_id : {<<>>, <<"c2">>}, client_secret : {<<>>, <<"s1">>}]
    \cup
    [grant_type : {<<"authorization_code">>}, refresh_token : {<<>>},
     client_id : {<<>>, <<"c1">>, <<"c2">>}, client_secret : {<<>>, <<"s1">>}]
    \cup
    [grant_type : {<<>>}, refresh_token : {<<>>},
     client_id : {<<"c1">>}, client_secret : {<<"s1">>}]

DoAccessToken ==
    \E form \in TokenForms, codeUser \in {"", "u1", "u2"}, writeErr \in BOOLEAN :
        /\ (Get(form, "grant_type") # "authorization_code" => codeUser = "")
        /\ AccessToken(form, codeUser, writeErr)

DoRefreshToken ==
    \E form \in TokenForms, codeUser \in {"", "u1", "u2"}, writeErr \in BOOLEAN :
        /\ (Get(form, "grant_type") # "authorization_code" => codeUser = "")
        /\ RefreshToken(form, codeUser, writeErr)

----------------------------------------------------------------------------
(* OauthUserInfo *)

\* strings.HasPrefix
HasPrefix(s, prefix) ==
    Len(s) >= Len(prefix) /\ SubSeq(s, 1, Len(prefix)) = prefix

\* strings.Split on a one-character separator
RECURSIVE Split(_, _)
Split(s, sep) ==
    IF \E i \in 1..Len(s) : s[i] = sep
    THEN LET i == CHOOSE j \in 1..Len(s) : s[j] = sep /\ \A k \in 1..(j - 1) : s[k] # sep
         IN  <<SubSeq(s, 1, i - 1)>> \o Split(SubSeq(s, i + 1, Len(s)), sep)
    ELSE <<s>>

Bearer == <<"B", "e", "a", "r", "e", "r">>
BearerSp == Bearer \o <<" ">>

\* the user table
UserTable == {[Uid |-> "u1", Email |-> "e1"], [Uid |-> "u2", Email |-> "e2"]}
NoUser == [Uid |-> "", Email |-> ""]

\* service.OauthUserInfo: the user of that uid, or an error
ServiceOauthUserInfo(uid) ==
    IF \E u \in UserTable : u.Uid = uid
    THEN [user |-> CHOOSE u \in UserTable : u.Uid = uid, err |-> "nil"]
    ELSE [user |-> NoUser, err |-> "not exist"]

Failed(code) == [success |-> FALSE, code |-> code, email |-> "", user_id |-> ""]
Success(email, uid) == [success |-> TRUE, code |-> "", email |-> email, user_id |-> uid]

UserInfoOut(header, calls, ti, resp) ==
    [op |-> "OauthUserInfo", header |-> header, calls |-> calls, ti |-> ti, resp |-> resp]

\* as OauthUserInfoResult, but only an empty header is refused
OauthUserInfoResultNoPrefix(header, tokens, nilUser) ==
    LET accessToken == IF Len(Split(header, " ")) >= 2 THEN Split(header, " ")[2]
                       ELSE <<>>
        load == LoadAccessToken(tokens, accessToken)
        got == ServiceOauthUserInfo(load.ti.UserID)
    IN  IF header = <<>>
        THEN UserInfoOut(header, <<>>, NoToken, Failed("AccessTokenErr"))
        ELSE IF load.err # "nil"
        THEN UserInfoOut(header, <<"LoadAccessToken">>, NoToken, Failed("AccessTokenErr"))
        ELSE IF got.err # "nil"
        THEN UserInfoOut(header, <<"LoadAccessToken", "OauthUserInfo">>, load.ti,
                         IF nilUser THEN Failed("panic") ELSE Failed("GET_USERINFO_FAIL"))
        ELSE UserInfoOut(header, <<"LoadAccessToken", "OauthUserInfo">>, load.ti,
                         Success(got.user.Email, got.user.Uid))

\* as OauthUserInfoResult, but the user is looked up by the token's client id
\* and the answer carries the id that was asked for
OauthUserInfoResultWrongUser(header, tokens, nilUser) ==
    LET accessToken == Split(header, " ")[2]
        load == LoadAccessToken(tokens, accessToken)
        got == ServiceOauthUserInfo(IF load.ti.UserID = "u1" THEN "u2" ELSE "u1")
    IN  IF header = <<>> \/ ~HasPrefix(header, BearerSp)
        THEN UserInfoOut(header, <<>>, NoToken, Failed("AccessTokenErr"))
        ELSE IF load.err # "nil"
        THEN UserInfoOut(header, <<"LoadAccessToken">>, NoToken, Failed("AccessTokenErr"))
        ELSE UserInfoOut(header, <<"LoadAccessToken", "OauthUserInfo">>, load.ti,
                         Success(got.user.Email, got.user.Uid))

\* the element [1] of the split exists whenever the prefix check passed; on a
\* lookup error the handler logs user.Uid, which panics when user is nil
OauthUserInfoResult(header, tokens, nilUser) ==
    LET accessToken == Split(header, " ")[2]
        load == LoadAccessToken(tokens, accessToken)
        got == ServiceOauthUserInfo(load.ti.UserID)
    IN  IF header = <<>> \/ ~HasPrefix(header, BearerSp)
        THEN UserInfoOut(header, <<>>, NoToken, Failed("AccessTokenErr"))
        ELSE IF load.err # "nil"
        THEN UserInfoOut(header, <<"LoadAccessToken">>, NoToken, Failed("AccessTokenErr"))
        ELSE IF got.err # "nil"
        THEN UserInfoOut(header, <<"LoadAccessToken", "OauthUserInfo">>, load.ti,
                         IF nilUser THEN Failed("panic") ELSE Failed("GET_USERINFO_FAIL"))
        ELSE UserInfoOut(header, <<"LoadAccessToken", "OauthUserInfo">>, load.ti,
                         Success(got.user.Email, got.user.Uid))

OauthUserInfo(header, nilUser) ==
    /\ out' = OauthUserInfoResult(header, tokenStore, nilUser)
    /\ UNCHANGED <<session, rdb, clientStore, tokenStore, nextTok>>

AccessCandidates == {AccessOf(n) : n \in (1..MaxIssued) \cup {7, 8, 9}}
Headers ==
    {<<>>, Bearer, BearerSp, AccessOf(1), <<" ">> \o BearerSp \o AccessOf(1),
     <<"b", "e", "a", "r", "e", "r", " ">> \o AccessOf(1),
     <<"B", "a", "s", "i", "c", " ">> \o AccessOf(1),
     Bearer \o AccessOf(1),
     BearerSp \o <<" ">> \o AccessOf(1),
     BearerSp \o AccessOf(1) \o <<" ", "x">>}
    \cup {BearerSp \o a : a \in AccessCandidates}

DoOauthUserInfo ==
    \E header \in Headers, nilUser \in BOOLEAN : OauthUserInfo(header, nilUser)

InitToken ==
    /\ session = NoSession
    /\ rdb = [u \in Usernames |-> NoKey]
    /\ clientStore = SeedClients
    /\ tokenStore = SeedTokens
    /\ nextTok = 0
    /\ out = [op |-> "none"]

NextToken == DoAccessToken \/ DoRefreshToken \/ DoOauthUserInfo

SpecToken == InitToken /\ [][NextToken]_vars

----------------------------------------------------------------------------
(* CreateClient *)

ClientOut(redirectURI, createCalled, status, resp) ==
    [op |-> "CreateClient", redirectURI |-> redirectURI,
     createCalled |-> createCalled, status |-> status, resp |-> resp]

Created(id, secret) == [success |-> TRUE, code |-> "", client_id |-> id, client_secret |-> secret]
NotCreated(code) == [success |-> FALSE, code |-> code, client_id |-> "", client_secret |-> ""]

\* clientStore.Create: the insert fails on a store error or a taken id
CreateFails(clients, id, storeErr) == storeErr \/ \E c \in clients : c.ID = id

\* as CreateClientResult, but without the check of the redirect URI
CreateClientResultNoCheck(clients, redirectURI, id, secret, genErr, storeErr) ==
    IF genErr
    THEN [out |-> ClientOut(redirectURI, FALSE, 500, NotCreated(INTERNAL_ERR)),
          clients |-> clients]
    ELSE IF CreateFails(clients, id, storeErr)
    THEN [out |-> ClientOut(redirectURI, TRUE, 400, NotCreated(INTERNAL_ERR)),
          clients |-> clients]
    ELSE [out |-> ClientOut(redirectURI, TRUE, 200, Created(id, secret)),
          clients |-> clients \cup
              {[ID |-> id, Secret |-> secret, Domain |-> redirectURI]}]

\* id and secret are what util.GenerateUUID and util.GenerateRandomString gave
CreateClientResult(clients, redirectURI, id, secret, genErr, storeErr) ==
    IF redirectURI = ""
    THEN [out |-> ClientOut(redirectURI, FALSE, 400, NotCreated("ParamError")),
          clients |-> clients]
    ELSE IF genErr
    THEN [out |-> ClientOut(redirectURI, FALSE, 500, NotCreated(INTERNAL_ERR)),
          clients |-> clients]
    ELSE IF CreateFails(clients, id, storeErr)
    THEN [out |-> ClientOut(redirectURI, TRUE, 400, NotCreated(INTERNAL_ERR)),
          clients |-> clients]
    ELSE [out |-> ClientOut(redirectURI, TRUE, 200, Created(id, secret)),
          clients |-> clients \cup
              {[ID |-> id, Secret |-> secret, Domain |-> redirectURI]}]

CreateClient(redirectURI, id, secret, genErr, storeErr) ==
    LET res == CreateClientResult(clientStore, redirectURI, id, secret, genErr, storeErr)
    IN  /\ clientStore' = res.clients
        /\ out' = res.out
        /\ UNCHANGED <<session, rdb, tokenStore, nextTok>>

RedirectURIs == {"", "d1", "d2"}
NewClientIDs == {"n1", "n2", "n3"}
NewSecrets == {"k1", "k2"}

DoCreateClient ==
    \E redirectURI \in RedirectURIs, id \in NewClientIDs, secret \in NewSecrets,
       genErr, storeErr \in BOOLEAN :
        CreateClient(redirectURI, id, secret, genErr, storeErr)

InitClient ==
    /\ session = NoSession
    /\ rdb = [u \in Usernames |-> NoKey]
    /\ clientStore = {}
    /\ tokenStore = {}
    /\ nextTok = 0
    /\ out = [op |-> "none"]

NextClient == DoCreateClient

SpecClient == InitClient /\ [][NextClient]_vars

----------------------------------------------------------------------------
(* Properties of Authorize and userAuthorizeHandler *)

\* the callback's outcome in the last Authorize call, when the library ran it
CallbackRan == out.op = "Authorize" /\ out.lib.called
FailedChecks == {"missing", "resolve", "lookup", "mismatch"}

\* the presented token is the current login token of the user it names
ValidLoginToken(token) ==
    /\ token # ""
    /\ GetUsername(token).err = "nil"
    /\ GetUsername(token).username # ""
    /\ rdb[GetUsername(token).username] = token

\* C1: whenever userAuthorizeHandler fails authentication at any check (no
\* token, token not resolving to a non-empty username, login-token lookup
\* failing, stored token differing), the request's form is stored in the
\* session under "ReturnUri" and the session is saved before it returns.
C1_FailedAuthStoresForm ==
    (CallbackRan /\ out.lib.cb.branch \in FailedChecks) =>
        /\ out.lib.cb.saved
        /\ session.has
        /\ session.ReturnUri = out.lib.form

C1_Witness ==
    /\ CallbackRan
    /\ out.lib.cb.branch = "mismatch"
    /\ session.has
    /\ Get(session.ReturnUri, "token") = "t2"

\* C2: a token mismatch or a failed login-token lookup gives the outcome of a
\* missing token: the same AUTH_ERROR body, the same session update, the same
\* returned user ID and the same returned error.
C2_SameOutcomeAsMissingToken ==
    (CallbackRan /\ out.lib.cb.branch \in {"lookup", "mismatch"}) =>
        LET cb == out.lib.cb
            bare == [cb.form EXCEPT !["token"] = <<>>]
            ref == userAuthorizeHandler([params |-> bare, Form |-> SomeForm(bare)],
                                        FALSE, rdb, FALSE)
        IN  /\ ref.branch = "missing"
            /\ cb.body = ref.body
            /\ cb.setReturnUri = ref.setReturnUri
            /\ cb.saved = ref.saved
            /\ cb.returnUri = cb.form
            /\ ref.returnUri = bare
            /\ cb.userID = ref.userID
            /\ cb.err = ref.err

\* C8: an Authorize request that finds the "ReturnUri" a failed
\* authentication left in the session, and carries a valid current login
\* token, is delegated with the stored authorization parameters, and the
\* callback reads that token from the replayed form and resolves its user.
C8_ReplayAfterLogin ==
    (/\ out.op = "Authorize" /\ out.started /\ out.hadReturnUri
     /\ ~out.rdbDown
     /\ out.lib.cb.branch # "session"
     /\ (out.stored["token"] = <<>> \/ Get(out.stored, "token") # "")
     /\ ValidLoginToken(Get(out.params, "token"))) =>
        /\ out.lib.called
        /\ AuthParams(out.lib.form) = AuthParams(out.stored)
        /\ Get(out.lib.form, "token") = Get(out.params, "token")
        /\ out.lib.cb.userID = GetUsername(Get(out.params, "token")).username
        /\ out.lib.cb.err = "nil"

\* C10: userAuthorizeHandler returns a non-empty user ID only when the form's
\* token is non-empty, resolves to a non-empty username and equals the login
\* token stored for that username; the user ID is then that username, the
\* error is nil, and neither a "ReturnUri" entry nor a response body is
\* written.  In every other case the returned user ID is empty.
C10_UserIDOnlyWhenAuthenticated ==
    CallbackRan =>
        LET cb == out.lib.cb
            token == Get(cb.form, "token")
        IN  /\ cb.userID # "" =>
                /\ ValidLoginToken(token)
                /\ cb.userID = GetUsername(token).username
                /\ cb.err = "nil"
                /\ ~cb.setReturnUri
                /\ ~session.has
                /\ cb.body = <<>>
            /\ ~ValidLoginToken(token) => cb.userID = ""

C10_Witness ==
    /\ CallbackRan
    /\ out.lib.cb.userID = "u2"
    /\ out.hadReturnUri
    /\ out.body = <<"redirect code">>

----------------------------------------------------------------------------
(* Properties of clientInfoHandler, the token handlers, userinfo, CreateClient *)

TokenCall == out.op \in {"AccessToken", "RefreshToken"} /\ out.cih.err # "not called"
RefreshGrant == TokenCall /\ Get(out.form, "grant_type") = "refresh_token"

\* C3: for grant_type "refresh_token", clientInfoHandler returns a non-nil
\* error with empty client id and secret, and does not panic, when the refresh
\* token cannot be loaded, when the token's client id is empty, when the client
\* cannot be fetched, or when the client's stored secret is empty; for any
\* grant a nil error comes only with a non-empty client id and secret.
C3_ClientInfoFails ==
    /\ RefreshGrant =>
          LET h == out.cih
              bad == \/ h.load.err # "nil"
                     \/ h.load.ti.ClientID = ""
                     \/ h.get.err # "nil"
                     \/ h.get.cli.Secret = ""
          IN  /\ ~h.panicked
              /\ bad => (h.err # "nil" /\ h.clientID = "" /\ h.clientSecret = "")
    /\ TokenCall =>
          (out.cih.err = "nil" => (out.cih.clientID # "" /\ out.cih.clientSecret # ""))

C3_Witness ==
    /\ RefreshGrant
    /\ out.cih.get.err = "nil"
    /\ out.cih.get.cli.ID = "c0"
    /\ out.cih.get.cli.Secret = ""
    /\ out.cih.err = "ClientErr"

C7_RefreshInverted ==
    /\ out.op = "RefreshToken" =>
          /\ out.libErr = "nil" => out.own = <<INTERNAL_ERR>>
          /\ out.libErr # "nil" => out.own = <<>>
    /\ out.op = "AccessToken" =>
          (out.own = <<INTERNAL_ERR>> <=> out.libErr # "nil")

C7_Witness ==
    /\ out.op = "RefreshToken"
    /\ out.libErr = "nil"
    /\ out.issued
    /\ out.libBody = <<"token">>
    /\ out.own = <<INTERNAL_ERR>>

\* C4: OauthUserInfo with a missing or empty Authorization header, or one not
\* starting with "Bearer ", answers the access-token-error failure and calls
\* neither the token load nor the user lookup.
C4_MalformedHeader ==
    (/\ out.op = "OauthUserInfo"
     /\ (Len(out.header) < 7 \/ \E i \in 1..7 : out.header[i] # BearerSp[i])) =>
        /\ out.resp = Failed("AccessTokenErr")
        /\ out.calls = <<>>

C4_Witness ==
    /\ out.op = "OauthUserInfo"
    /\ out.header = Bearer \o AccessOf(1)
    /\ \E t \in tokenStore : t.Access = AccessOf(1)
    /\ out.calls = <<>>

C6_EmptyRedirectRefused ==
    /\ (out.op = "CreateClient" /\ out.redirectURI = "") =>
          (out.resp = NotCreated("ParamError") /\ ~out.createCalled)
    /\ \A c \in clientStore : c.Domain # ""

C6_Witness ==
    /\ out.op = "CreateClient"
    /\ out.redirectURI = ""
    /\ Cardinality(clientStore) = 2

====
